---- MODULE Spec2Model ----
(***************************************************************************)
(* The video-storage microservice (video-storage/src/index.js): an Express *)
(* application that streams videos from, and uploads videos to, one bucket *)
(* of an S3-compatible object store (IBM COS).                             *)
(*                                                                         *)
(* The process is modelled from the moment node starts executing the       *)
(* module: module load (the globals), main(), the bind of the HTTP         *)
(* listener, and then the request handlers.  The object store is an        *)
(* external collaborator; it is modelled as a key-value store that keeps   *)
(* what it stored and that may fail any single call.                       *)
(***************************************************************************)
EXTENDS Integers, Sequences, FiniteSets, TLC

\* ------------------------------------------------------------------ bounds
\* Total number of HTTP requests that arrive during one run.
MaxRequests == 2

\* Number of uncaught exceptions during one run.
MaxUncaught == 1

\* ------------------------------------------------------------- JS values
\* JavaScript's undefined (an unset environment variable, a missing header
\* or query parameter).
Absent == "<undefined>"

\* A record that stands for "no value yet" in the bookkeeping of a request.
None == [kind |-> "none"]

\* JavaScript truthiness of an environment value: undefined and '' are falsy.
Truthy(v) == v # Absent /\ v # ""

\* String.prototype.toLowerCase on the values the model uses.
ToLowerCase(s) ==
  CASE s = "HMAC" -> "hmac"
    [] s = "IAM" -> "iam"
    [] OTHER -> s

\* String(n): the decimal text of a number, as res.set() produces it for a
\* numeric header value.
DecimalString(n) ==
  CASE n = 0 -> "0"
    [] n = 1 -> "1"
    [] n = 2 -> "2"
    [] n = 3 -> "3"
    [] OTHER -> "many"

\* ------------------------------------------------------------ environment
EnvNames ==
  {"BUCKET_NAME", "ENDPOINT", "AUTHENTICATION_TYPE", "REGION",
   "SECRET_ACCESS_KEY", "ACCESS_KEY_ID", "API_KEY", "SERVICE_INSTANCE_ID"}

\* The environments a run may start in: every variable is unset or set, the
\* always-required ones may also be set to the empty string, and the
\* authentication type ranges over both modes, another letter case and an
\* unknown mode.
Environments ==
  [BUCKET_NAME : {Absent, "", "videos"},
   ENDPOINT : {Absent, "", "https://cos.example"},
   AUTHENTICATION_TYPE : {Absent, "", "hmac", "HMAC", "iam", "basic"},
   REGION : {Absent, "set"},
   SECRET_ACCESS_KEY : {Absent, "set"},
   ACCESS_KEY_ID : {Absent, "set"},
   API_KEY : {Absent, "set"},
   SERVICE_INSTANCE_ID : {Absent, "set"}]

VARIABLES
  pc,               \* where the process is: "start", "loaded", "binding",
                    \* "listening", "crashed", "failed", "bindFailed"
  env,              \* process.env
  CONFIG,           \* the module constant CONFIG (None before it is computed)
  READINESS_PROBE,  \* the module variable READINESS_PROBE
  startError,       \* the exception that ended startup (None when there is none)
  processLog,       \* log lines of the process itself (requestId '-1')
  reqs,             \* the requests that arrived, in arrival order
  bucket,           \* the content of the bucket in the object store
  acked,            \* history: per key, the payload of the upload that was
                    \* answered 200 with no other upload to that key pending
                    \* then or arrived since
  uncaught          \* number of exceptions the uncaughtException handler
                    \* took while the service was listening

vars == <<pc, env, CONFIG, READINESS_PROBE, startError, processLog, reqs, bucket, acked, uncaught>>

\* The module constants of lines 20-29 are the environment values read at load.
BUCKET_NAME == env["BUCKET_NAME"]
AUTHENTICATION_TYPE == env["AUTHENTICATION_TYPE"]

\* A log record: level, message (template and interpolated values), requestId.
LogLine(level, message, requestId) ==
  [level |-> level, message |-> message, requestId |-> requestId]

\* ---------------------------------------------------------------- startup
\* const CONFIG = AUTHENTICATION_TYPE.toLowerCase() === 'hmac' ? {...} : {...}
MakeConfig(e) ==
  IF ToLowerCase(e["AUTHENTICATION_TYPE"]) = "hmac"
  THEN [kind |-> "hmac", apiVersion |-> "latest",
        accessKeyId |-> e["ACCESS_KEY_ID"],
        secretAccessKey |-> e["SECRET_ACCESS_KEY"],
        region |-> e["REGION"], endpoint |-> e["ENDPOINT"]]
  ELSE [kind |-> "iam", apiVersion |-> "latest",
        apiKeyId |-> e["API_KEY"],
        serviceInstanceId |-> e["SERVICE_INSTANCE_ID"],
        endpoint |-> e["ENDPOINT"]]

MissingConfiguration(field) == [kind |-> "MissingConfiguration", field |-> field]
UnknownAuthenticationType(value) == [kind |-> "UnknownAuthenticationType", value |-> value]
TypeError == [kind |-> "TypeError", property |-> "toLowerCase"]

\* The checks of main(): the Error it throws, or None when it throws nothing.
\* Each Error is represented by the environment variable its message names.
MainErrorNoAuthCheck(e) ==
  IF ~Truthy(e["BUCKET_NAME"]) THEN MissingConfiguration("BUCKET_NAME")
  ELSE IF ~Truthy(e["ENDPOINT"]) THEN MissingConfiguration("ENDPOINT")
  ELSE IF ~Truthy(e["AUTHENTICATION_TYPE"]) THEN MissingConfiguration("AUTHENTICATION_TYPE")
  ELSE None

MainErrorNoSecretCheck(e) ==
  IF ~Truthy(e["BUCKET_NAME"]) THEN MissingConfiguration("BUCKET_NAME")
  ELSE IF ~Truthy(e["ENDPOINT"]) THEN MissingConfiguration("ENDPOINT")
  ELSE IF ~Truthy(e["AUTHENTICATION_TYPE"]) THEN MissingConfiguration("AUTHENTICATION_TYPE")
  ELSE IF ToLowerCase(e["AUTHENTICATION_TYPE"]) = "hmac" THEN
    IF ~Truthy(e["REGION"]) THEN MissingConfiguration("REGION")
    ELSE IF ~Truthy(e["ACCESS_KEY_ID"]) THEN MissingConfiguration("ACCESS_KEY_ID")
    ELSE None
  ELSE IF ToLowerCase(e["AUTHENTICATION_TYPE"]) = "iam" THEN
    IF ~Truthy(e["API_KEY"]) THEN MissingConfiguration("API_KEY")
    ELSE IF ~Truthy(e["SERVICE_INSTANCE_ID"]) THEN MissingConfiguration("SERVICE_INSTANCE_ID")
    ELSE None
  ELSE UnknownAuthenticationType(e["AUTHENTICATION_TYPE"])

MainError(e) ==
  IF ~Truthy(e["BUCKET_NAME"]) THEN MissingConfiguration("BUCKET_NAME")
  ELSE IF ~Truthy(e["ENDPOINT"]) THEN MissingConfiguration("ENDPOINT")
  ELSE IF ~Truthy(e["AUTHENTICATION_TYPE"]) THEN MissingConfiguration("AUTHENTICATION_TYPE")
  ELSE IF ToLowerCase(e["AUTHENTICATION_TYPE"]) = "hmac" THEN
    IF ~Truthy(e["REGION"]) THEN MissingConfiguration("REGION")
    ELSE IF ~Truthy(e["SECRET_ACCESS_KEY"]) THEN MissingConfiguration("SECRET_ACCESS_KEY")
    ELSE IF ~Truthy(e["ACCESS_KEY_ID"]) THEN MissingConfiguration("ACCESS_KEY_ID")
    ELSE None
  ELSE IF ToLowerCase(e["AUTHENTICATION_TYPE"]) = "iam" THEN
    IF ~Truthy(e["API_KEY"]) THEN MissingConfiguration("API_KEY")
    ELSE IF ~Truthy(e["SERVICE_INSTANCE_ID"]) THEN MissingConfiguration("SERVICE_INSTANCE_ID")
    ELSE None
  ELSE UnknownAuthenticationType(e["AUTHENTICATION_TYPE"])

\* process.on('uncaughtException'): three error lines, and the process goes on.
UncaughtExceptionLog(err) ==
  <<LogLine("error", <<"Uncaught exception.">>, "-1"),
    LogLine("error", <<"err", err>>, "-1"),
    LogLine("error", <<"err.stack", err>>, "-1")>>

Init ==
  /\ pc = "start"
  /\ env \in Environments
  /\ CONFIG = None
  /\ READINESS_PROBE = FALSE
  /\ startError = None
  /\ processLog = <<>>
  /\ reqs = <<>>
  /\ bucket = <<>>
  /\ acked = <<>>
  /\ uncaught = 0

\* Lines 19-90: the module's globals.  Constructing the client (line 49)
\* validates nothing and contacts nobody.  AUTHENTICATION_TYPE.toLowerCase()
\* (line 32) throws a TypeError when the variable is unset; the handler of
\* uncaughtException is installed later (line 57), so the process dies.
LoadModule ==
  /\ pc = "start"
  /\ IF AUTHENTICATION_TYPE = Absent
     THEN /\ pc' = "crashed"
          /\ startError' = TypeError
          /\ UNCHANGED CONFIG
     ELSE /\ pc' = "loaded"
          /\ CONFIG' = MakeConfig(env)
          /\ UNCHANGED startError
  /\ UNCHANGED <<env, READINESS_PROBE, processLog, reqs, bucket, acked, uncaught>>

\* Lines 101-153: main() is called.  main is not an async function, so an
\* Error it throws leaves main() synchronously: the .catch of line 107 is
\* never attached, the exception ends the evaluation of the module (no route
\* is registered) and reaches the uncaughtException handler.  Without an
\* Error, app.listen is called and the promise main returned is pending.
Main ==
  /\ pc = "loaded"
  /\ LET err == MainError(env) IN
       IF err # None
       THEN /\ pc' = "failed"
            /\ startError' = err
            /\ processLog' = processLog \o UncaughtExceptionLog(err)
       ELSE /\ pc' = "binding"
            /\ UNCHANGED <<startError, processLog>>
  /\ UNCHANGED <<env, CONFIG, READINESS_PROBE, reqs, bucket, acked, uncaught>>

\* The callback of app.listen (line 149) resolves the promise and the .then
\* of line 103 runs before any request is dispatched.
SetReadyNever(flag) == flag
SetReady(flag) == TRUE

Listening ==
  /\ pc = "binding"
  /\ pc' = "listening"
  /\ READINESS_PROBE' = SetReady(READINESS_PROBE)
  /\ processLog' = Append(processLog,
                     LogLine("info", <<"Microservice is listening on port">>, "-1"))
  /\ UNCHANGED <<env, CONFIG, startError, reqs, bucket, acked, uncaught>>

\* The listener cannot bind (the port is taken): the server emits 'error',
\* which nobody listens to, so it reaches the uncaughtException handler; the
\* promise of main never resolves.
ListenError == [kind |-> "ListenError", code |-> "EADDRINUSE"]

BindFailed ==
  /\ pc = "binding"
  /\ pc' = "bindFailed"
  /\ processLog' = processLog \o UncaughtExceptionLog(ListenError)
  /\ UNCHANGED <<env, CONFIG, READINESS_PROBE, startError, reqs, bucket, acked, uncaught>>

\* --------------------------------------------------------------- requests
\* An inbound HTTP request as Express presents it: req.method, the path and
\* the id query parameter (together req.url), the headers the handlers read,
\* and the body.
Request(method, path, query, id, mimeType, cid, body) ==
  [method |-> method, path |-> path, query |-> query,
   headers |-> [id |-> id, contentType |-> mimeType,
                contentLength |-> IF body = <<>> THEN Absent
                                  ELSE DecimalString(Len(body)),
                correlationId |-> cid],
   body |-> body]

\* The traffic the model draws requests from: each route with and without
\* its inputs, two keys, two payloads that differ in type and bytes, and
\* three requests no route matches.
Requests ==
  {Request("GET", "/readiness", Absent, Absent, Absent, Absent, <<>>),
   Request("GET", "/video", Absent, Absent, Absent, Absent, <<>>),
   Request("GET", "/video", "k1", Absent, Absent, "c1", <<>>),
   Request("GET", "/video", "k2", Absent, Absent, Absent, <<>>),
   Request("POST", "/upload", Absent, "k1", "video/mp4", "c1", <<1, 2>>),
   Request("POST", "/upload", Absent, "k1", "video/webm", Absent, <<3>>),
   Request("POST", "/upload", Absent, "k2", "video/mp4", "c2", <<3>>),
   Request("POST", "/upload", Absent, Absent, "video/mp4", Absent, <<1, 2>>),
   Request("GET", "/unknown", Absent, Absent, Absent, "c1", <<>>),
   Request("POST", "/video", "k1", Absent, Absent, Absent, <<>>),
   Request("GET", "/upload", Absent, Absent, Absent, Absent, <<>>)}

\* req.url: the path and the query string.  Texts that embed a URL are
\* sequences of fragments, each a sequence of strings.
Url(r) == <<r.path, r.query>>

\* Express tries the routes in the order they were registered (lines 159,
\* 165, 207) and falls through to the middleware of line 244.
RouteAnyMethod(r) ==
  IF r.path = "/readiness" THEN "readiness"
  ELSE IF r.path = "/video" THEN "video"
  ELSE IF r.path = "/upload" THEN "upload"
  ELSE "fallback"

Route(r) ==
  IF r.method = "GET" /\ r.path = "/readiness" THEN "readiness"
  ELSE IF r.method = "GET" /\ r.path = "/video" THEN "video"
  ELSE IF r.method = "POST" /\ r.path = "/upload" THEN "upload"
  ELSE "fallback"

\* What is kept of a request: the request, whether its handler still waits
\* for the object store, the calls it made to the object store, what the
\* object store answered (and to which call), the response, the log lines
\* written for it, and
\* (history, for a download) the acknowledged upload its key had when the
\* request arrived, forgotten when another upload to the key arrives.
\* dropped tells that the client closed the connection while the handler
\* was waiting for the object store.
Entry(r, state, calls, res, log, expect) ==
  [req |-> r, state |-> state, calls |-> calls, result |-> None,
   res |-> res, log |-> log, expect |-> expect, dropped |-> FALSE]

\* ------------------------------------------------------------- responses
StatusText(code) ==
  CASE code = 200 -> "OK"
    [] code = 404 -> "Not Found"
    [] code = 500 -> "Internal Server Error"
    [] OTHER -> "Unknown"

\* res.sendStatus(code): the status, and its text as the body.
SendStatus(code) ==
  [status |-> code,
   headers |-> [contentType |-> "text/plain", contentLength |-> Absent],
   body |-> [kind |-> "text", text |-> StatusText(code)]]

\* ----------------------------------------------------------- GET /readiness
\* res.sendStatus(READINESS_PROBE === true ? 200 : 500)
ReadinessStatus(flag) == IF flag = TRUE THEN 200 ELSE 500

Readiness ==
  /\ pc = "listening"
  /\ Len(reqs) < MaxRequests
  /\ \E r \in Requests :
       /\ Route(r) = "readiness"
       /\ reqs' = Append(reqs,
            Entry(r, "done", <<>>, SendStatus(ReadinessStatus(READINESS_PROBE)),
                  <<>>, None))
  /\ UNCHANGED <<pc, env, CONFIG, READINESS_PROBE, startError, processLog, bucket, acked, uncaught>>

\* --------------------------------------------------------------- GET /video
\* const params = { Bucket: BUCKET_NAME, Key: videoId }
GetObjectParams(r) == [op |-> "getObject", Bucket |-> BUCKET_NAME, Key |-> r.query]

\* The branch of line 174: videoId !== undefined.
HasVideoIdAlways(r) == TRUE
HasVideoId(r) == r.query # Absent

\* res.send({ error: ... }): status 200 and the object as JSON.
MissingIdResponse ==
  [status |-> 200,
   headers |-> [contentType |-> "application/json", contentLength |-> Absent],
   body |-> [kind |-> "json", error |-> "An 'id' term must be provided."]]

\* Lines 172-181 and 200-203: the handler up to the call of getObject, or the
\* whole handler when there is no id.
VideoRequest ==
  /\ pc = "listening"
  /\ Len(reqs) < MaxRequests
  /\ \E r \in Requests :
       /\ Route(r) = "video"
       /\ LET cid == r.headers.correlationId IN
          IF HasVideoId(r)
          THEN reqs' = Append(reqs,
                 Entry(r, "pending", <<GetObjectParams(r)>>, None,
                       <<LogLine("info", <<"Retrieving video from bucket", BUCKET_NAME, r.query>>, cid)>>,
                       IF r.query \in DOMAIN acked THEN acked[r.query] ELSE None))
          ELSE reqs' = Append(reqs,
                 Entry(r, "done", <<>>, MissingIdResponse,
                       <<LogLine("info", <<"An id term must be provided.">>, cid)>>,
                       None))
  /\ UNCHANGED <<pc, env, CONFIG, READINESS_PROBE, startError, processLog, bucket, acked, uncaught>>

\* What getObject resolves with for a stored object.
ObjectData(obj) ==
  [ContentType |-> obj.ContentType, ContentLength |-> Len(obj.Body), Body |-> obj.Body]

\* Lines 185-188: the headers from the metadata, the body, status 200.
VideoResponseDefaultType(data) ==
  [status |-> 200,
   headers |-> [contentType |-> "application/octet-stream",
                contentLength |-> DecimalString(data.ContentLength)],
   body |-> [kind |-> "buffer", bytes |-> data.Body]]

VideoResponse(data) ==
  [status |-> 200,
   headers |-> [contentType |-> data.ContentType,
                contentLength |-> DecimalString(data.ContentLength)],
   body |-> [kind |-> "buffer", bytes |-> data.Body]]

\* Lines 191-197: what the catch handler logs.
VideoFailureLog(err, r) ==
  LET cid == r.headers.correlationId IN
  IF err.code = "NoSuchKey"
  THEN <<LogLine("info", <<"not found", BUCKET_NAME, r.query>>, cid)>>
  ELSE <<LogLine("error", <<"Error while retrieving video", BUCKET_NAME, r.query>>, cid),
         LogLine("error", <<"err", err>>, cid),
         LogLine("error", <<"err.stack", err>>, cid)>>

\* Line 198.
VideoFailureStatusNotFound(err) == IF err.code = "NoSuchKey" THEN 404 ELSE 500
VideoFailureStatus(err) == 500

\* The errors the object store can answer a getObject with: NoSuchKey when
\* the key is not stored, and at any time an error of another kind.
NoSuchKey == [code |-> "NoSuchKey"]
NetworkingError == [code |-> "NetworkingError"]
MissingRequiredParameter == [code |-> "MissingRequiredParameter"]

GetObjectErrors(params) ==
  IF params.Key \in DOMAIN bucket THEN {NetworkingError}
  ELSE {NoSuchKey, NetworkingError}

\* The call whose promise the .then and .catch of request i hang on: each
\* handler invocation has its own params, promise and closure (const
\* declarations inside the handler).  In the shared variant the handlers
\* keep params in one variable of the module, which every arrival
\* overwrites.
PendingCallShared(i) ==
  LET withCall == {j \in DOMAIN reqs : reqs[j].calls # <<>>}
      last == CHOOSE j \in withCall : \A k \in withCall : k <= j
  IN reqs[last].calls[Len(reqs[last].calls)]

PendingCall(i) == reqs[i].calls[Len(reqs[i].calls)]

\* The promise of getObject resolves: lines 182-189.
GetObjectResolved(i) ==
  /\ reqs[i].state = "pending"
  /\ Route(reqs[i].req) = "video"
  /\ LET params == PendingCall(i)
         cid == reqs[i].req.headers.correlationId IN
       /\ params.Key \in DOMAIN bucket
       /\ LET data == ObjectData(bucket[params.Key]) IN
            reqs' = [reqs EXCEPT ![i] =
              [@ EXCEPT !.state = "done",
                        !.result = [ok |-> TRUE, call |-> params, data |-> data],
                        !.res = VideoResponse(data),
                        !.log = Append(@, LogLine("info",
                                  <<"Retrieved", BUCKET_NAME, reqs[i].req.query, data.ContentLength>>, cid))]]
  /\ UNCHANGED <<pc, env, CONFIG, READINESS_PROBE, startError, processLog, bucket, acked, uncaught>>

\* The promise of getObject rejects: lines 190-199.
GetObjectRejected(i) ==
  /\ reqs[i].state = "pending"
  /\ Route(reqs[i].req) = "video"
  /\ \E err \in GetObjectErrors(PendingCall(i)) :
       reqs' = [reqs EXCEPT ![i] =
         [@ EXCEPT !.state = "done",
                   !.result = [ok |-> FALSE, call |-> PendingCall(i), err |-> err],
                   !.res = SendStatus(VideoFailureStatus(err)),
                   !.log = @ \o VideoFailureLog(err, reqs[i].req)]]
  /\ UNCHANGED <<pc, env, CONFIG, READINESS_PROBE, startError, processLog, bucket, acked, uncaught>>

\* ------------------------------------------------------------- POST /upload
\* Lines 209-220: the parameters of putObject, from the headers and the body.
PutObjectParamsSwapped(r) ==
  [op |-> "putObject", Bucket |-> BUCKET_NAME, Key |-> r.headers.id,
   ContentType |-> r.headers.contentLength,
   ContentLength |-> r.headers.contentType,
   Body |-> r.body]

PutObjectParams(r) ==
  [op |-> "putObject", Bucket |-> BUCKET_NAME, Key |-> r.headers.id,
   ContentType |-> r.headers.contentType,
   ContentLength |-> r.headers.contentLength,
   Body |-> r.body]

\* History: an upload to key k arrives, so the downloads of k that wait for
\* the object store are no longer downloads that follow an acknowledged
\* upload with no other upload in between.
Forget(q, k) ==
  [i \in DOMAIN q |->
     IF q[i].state = "pending" /\ Route(q[i].req) = "video" /\ q[i].req.query = k
     THEN [q[i] EXCEPT !.expect = None]
     ELSE q[i]]

\* Lines 209-223: the handler up to the call of putObject.
UploadRequest ==
  /\ pc = "listening"
  /\ Len(reqs) < MaxRequests
  /\ \E r \in Requests :
       /\ Route(r) = "upload"
       /\ acked' = [k \in DOMAIN acked \ {r.headers.id} |-> acked[k]]
       /\ reqs' = Append(Forget(reqs, r.headers.id),
            Entry(r, "pending", <<PutObjectParams(r)>>, None,
                  <<LogLine("info", <<"Uploading video to bucket", BUCKET_NAME,
                                      r.headers.id, r.headers.contentType,
                                      r.headers.contentLength>>,
                            r.headers.correlationId)>>,
                  None))
  /\ UNCHANGED <<pc, env, CONFIG, READINESS_PROBE, startError, processLog, bucket, uncaught>>

\* Lines 226 and 231.
UploadStatusAlwaysOk(ok) == 200
UploadStatus(ok) == IF ok THEN 200 ELSE 500

\* What the object store keeps of a putObject.
StoredObject(params) == [ContentType |-> params.ContentType, Body |-> params.Body]

\* The promise of putObject resolves (the object store has stored the
\* object): lines 224-227.
PutObjectResolved(i) ==
  /\ reqs[i].state = "pending"
  /\ Route(reqs[i].req) = "upload"
  /\ LET params == PendingCall(i)
         cid == reqs[i].req.headers.correlationId IN
       /\ params.Key # Absent
       /\ bucket' = [k \in DOMAIN bucket \cup {params.Key} |->
                       IF k = params.Key THEN StoredObject(params) ELSE bucket[k]]
       /\ acked' =
            IF \E j \in DOMAIN reqs :
                 /\ j # i
                 /\ reqs[j].state = "pending"
                 /\ Route(reqs[j].req) = "upload"
                 /\ reqs[j].req.headers.id = reqs[i].req.headers.id
            THEN acked
            ELSE [k \in DOMAIN acked \cup {reqs[i].req.headers.id} |->
                    IF k = reqs[i].req.headers.id
                    THEN [ContentType |-> reqs[i].req.headers.contentType,
                          Body |-> reqs[i].req.body]
                    ELSE acked[k]]
       /\ reqs' = [reqs EXCEPT ![i] =
            [@ EXCEPT !.state = "done",
                      !.result = [ok |-> TRUE, call |-> params, data |-> None],
                      !.res = SendStatus(UploadStatus(TRUE)),
                      !.log = Append(@, LogLine("info",
                                <<"Uploaded the video", reqs[i].req.headers.id>>, cid))]]
  /\ UNCHANGED <<pc, env, CONFIG, READINESS_PROBE, startError, processLog, uncaught>>

\* The errors a putObject can be answered with: a call without a key fails
\* the validation of its parameters; any call may fail otherwise.
PutObjectErrors(params) ==
  IF params.Key = Absent THEN {MissingRequiredParameter} ELSE {NetworkingError}

\* The promise of putObject rejects (nothing was stored): lines 228-232.
PutObjectRejected(i) ==
  /\ reqs[i].state = "pending"
  /\ Route(reqs[i].req) = "upload"
  /\ \E err \in PutObjectErrors(PendingCall(i)) :
       LET cid == reqs[i].req.headers.correlationId IN
       reqs' = [reqs EXCEPT ![i] =
         [@ EXCEPT !.state = "done",
                   !.result = [ok |-> FALSE, call |-> PendingCall(i), err |-> err],
                   !.res = SendStatus(UploadStatus(FALSE)),
                   !.log = @ \o <<LogLine("error",
                                    <<"Upload to COS failed for video", reqs[i].req.headers.id>>, cid),
                                  LogLine("error", <<"err", err>>, cid)>>]]
  /\ UNCHANGED <<pc, env, CONFIG, READINESS_PROBE, startError, processLog, bucket, acked, uncaught>>

\* ------------------------------------------------------------ the 404 route
\* res.status(404).send(`<h1>Unable to find the requested resource (${req.url})!</h1>`)
NotFoundResponse(r) ==
  [status |-> 404,
   headers |-> [contentType |-> "text/html", contentLength |-> Absent],
   body |-> [kind |-> "html",
             text |-> <<<<"<h1>Unable to find the requested resource (">>, Url(r), <<")!</h1>">>>>]]

\* logger.error(`Unable to find the requested resource (${req.url})!`, {requestId:'-1'})
NotFoundLog(r) ==
  <<LogLine("error", <<<<"Unable to find the requested resource (">>, Url(r), <<")!">>>>, "-1")>>

Fallback ==
  /\ pc = "listening"
  /\ Len(reqs) < MaxRequests
  /\ \E r \in Requests :
       /\ Route(r) = "fallback"
       /\ reqs' = Append(reqs,
            Entry(r, "done", <<>>, NotFoundResponse(r), NotFoundLog(r), None))
  /\ UNCHANGED <<pc, env, CONFIG, READINESS_PROBE, startError, processLog, bucket, acked, uncaught>>

\* ------------------------------------------------------ dropped connections
\* The client closes the connection of a request whose handler waits for
\* the object store.  Neither handler listens to 'close' or 'aborted' of the
\* request or the response and neither keeps the AWS.Request it could
\* abort (lines 180 and 222 call .promise() at once), so nothing but the
\* state of the connection changes: the call goes on, and its .then or
\* .catch later writes the response into the closed connection.
ConnectionDropped(i) ==
  /\ reqs[i].state = "pending"
  /\ ~reqs[i].dropped
  /\ reqs' = [reqs EXCEPT ![i].dropped = TRUE]
  /\ UNCHANGED <<pc, env, CONFIG, READINESS_PROBE, startError, processLog, bucket, acked, uncaught>>

\* ------------------------------------------------------ uncaught exceptions
\* Any exception no handler catches while the service runs reaches the
\* handler of lines 57-62, which logs it and lets the process continue.
RuntimeError == [kind |-> "Error"]

UncaughtException ==
  /\ pc = "listening"
  /\ uncaught < MaxUncaught
  /\ uncaught' = uncaught + 1
  /\ processLog' = processLog \o UncaughtExceptionLog(RuntimeError)
  /\ UNCHANGED <<pc, env, CONFIG, READINESS_PROBE, startError, reqs, bucket, acked>>

Next ==
  \/ LoadModule
  \/ Main
  \/ Listening
  \/ BindFailed
  \/ Readiness
  \/ VideoRequest
  \/ UploadRequest
  \/ Fallback
  \/ UncaughtException
  \/ \E i \in 1..Len(reqs) : GetObjectResolved(i)
  \/ \E i \in 1..Len(reqs) : GetObjectRejected(i)
  \/ \E i \in 1..Len(reqs) : PutObjectResolved(i)
  \/ \E i \in 1..Len(reqs) : PutObjectRejected(i)

Spec == Init /\ [][Next]_vars

\* The service under traffic whose clients may close their connections: it
\* starts in an environment that is complete for its mode and has nothing
\* of the other mode.
ServingEnvironments ==
  {e \in Environments :
     /\ e["BUCKET_NAME"] = "videos" /\ e["ENDPOINT"] = "https://cos.example"
     /\ \/ /\ e["AUTHENTICATION_TYPE"] = "hmac"
           /\ \A n \in {"REGION", "SECRET_ACCESS_KEY", "ACCESS_KEY_ID"} : e[n] = "set"
           /\ \A n \in {"API_KEY", "SERVICE_INSTANCE_ID"} : e[n] = Absent
        \/ /\ e["AUTHENTICATION_TYPE"] = "iam"
           /\ \A n \in {"API_KEY", "SERVICE_INSTANCE_ID"} : e[n] = "set"
           /\ \A n \in {"REGION", "SECRET_ACCESS_KEY", "ACCESS_KEY_ID"} : e[n] = Absent}

InitServing == Init /\ env \in ServingEnvironments

NextServing ==
  \/ Next
  \/ \E i \in 1..Len(reqs) : ConnectionDropped(i)

SpecServing == InitServing /\ [][NextServing]_vars
\* ================================================================ claims
StartupOver == pc \notin {"start", "loaded"}
Bound == pc = "listening"
Answered(i) == reqs[i].state = "done"
IsDownload(r) == r.method = "GET" /\ r.path = "/video"
IsUpload(r) == r.method = "POST" /\ r.path = "/upload"
IsProbe(r) == r.method = "GET" /\ r.path = "/readiness"

\* C1: GET /readiness answers 500 in every state before the listener has
\* bound and 200 in every state after; every probe that was answered was
\* answered 200 by a bound listener; READINESS_PROBE changes only from false
\* to true and no step (a request, a failure of the object store, an
\* uncaught exception) sets it back.
C1_ReadinessFollowsBind ==
  /\ [](ReadinessStatus(READINESS_PROBE) = IF Bound THEN 200 ELSE 500)
  /\ [](\A i \in DOMAIN reqs :
          IsProbe(reqs[i].req) => Bound /\ Answered(i) /\ reqs[i].res.status = 200)
  /\ [][READINESS_PROBE => READINESS_PROBE']_vars
  /\ [][READINESS_PROBE' # READINESS_PROBE => ~Bound /\ Bound']_vars

\* A probe was answered 200 after a download failed and an exception went
\* uncaught.
C1_Witness ==
  /\ READINESS_PROBE
  /\ uncaught > 0
  /\ \E i, j \in DOMAIN reqs :
       /\ j < i
       /\ IsDownload(reqs[j].req) /\ Answered(j) /\ reqs[j].res.status = 500
       /\ IsProbe(reqs[i].req) /\ reqs[i].res.status = 200

\* C2: a GET /video with an id whose fetch succeeded with bytes B, type T
\* and length L is answered 200 with Content-Type T, Content-Length L and
\* body B, and the object store was asked once, for the configured bucket
\* and exactly the key given in id.
C2_DownloadSuccess ==
  \A i \in DOMAIN reqs :
    LET e == reqs[i] IN
    (IsDownload(e.req) /\ e.req.query # Absent /\ Answered(i) /\ e.result.ok) =>
      /\ e.res.status = 200
      /\ e.res.headers.contentType = e.result.data.ContentType
      /\ e.res.headers.contentLength = DecimalString(e.result.data.ContentLength)
      /\ e.res.body = [kind |-> "buffer", bytes |-> e.result.data.Body]
      /\ e.calls = <<[op |-> "getObject", Bucket |-> env["BUCKET_NAME"], Key |-> e.req.query]>>

\* A download of a stored video was answered with its two bytes.
C2_Witness ==
  \E i \in DOMAIN reqs :
    /\ IsDownload(reqs[i].req) /\ reqs[i].req.query = "k1"
    /\ Answered(i) /\ reqs[i].result.ok
    /\ reqs[i].res.status = 200
    /\ reqs[i].res.body = [kind |-> "buffer", bytes |-> <<1, 2>>]
    /\ reqs[i].res.headers.contentLength = "2"

\* C3: a GET /video without an id is answered at once with status 200 and
\* the body { error: "An 'id' term must be provided." }, and no call to the
\* object store is made for it.
C3_MissingId ==
  \A i \in DOMAIN reqs :
    LET e == reqs[i] IN
    (IsDownload(e.req) /\ e.req.query = Absent) =>
      /\ Answered(i)
      /\ e.res.status = 200
      /\ e.res.body = [kind |-> "json", error |-> "An 'id' term must be provided."]
      /\ e.calls = <<>>

C3_Witness ==
  \E i \in DOMAIN reqs :
    /\ IsDownload(reqs[i].req) /\ reqs[i].req.query = Absent
    /\ reqs[i].res.status = 200 /\ reqs[i].res.body.kind = "json"

\* The log lines a handler wrote after the line that announces the call.
AfterFirst(log) == SubSeq(log, 2, Len(log))

\* C4: a GET /video with an id whose fetch failed is answered 500, for
\* NoSuchKey as for any other error; NoSuchKey is logged with one info line
\* and no error line, any other error with error lines that carry the error;
\* the fetch was made once.
C4_DownloadFailure ==
  \A i \in DOMAIN reqs :
    LET e == reqs[i] IN
    (IsDownload(e.req) /\ e.req.query # Absent /\ Answered(i) /\ ~e.result.ok) =>
      /\ e.res = SendStatus(500)
      /\ Len(e.calls) = 1
      /\ LET rest == AfterFirst(e.log) IN
         IF e.result.err.code = "NoSuchKey"
         THEN Len(rest) = 1 /\ rest[1].level = "info"
         ELSE /\ Len(rest) >= 1
              /\ \A j \in DOMAIN rest : rest[j].level = "error"
              /\ \E j \in DOMAIN rest : rest[j].message = <<"err", e.result.err>>

\* One download failed with NoSuchKey and another with another error.
C4_Witness ==
  \E i, j \in DOMAIN reqs :
    /\ IsDownload(reqs[i].req) /\ reqs[i].req.query # Absent
    /\ Answered(i) /\ ~reqs[i].result.ok
    /\ reqs[i].result.err.code = "NoSuchKey" /\ reqs[i].res.status = 500
    /\ IsDownload(reqs[j].req) /\ reqs[j].req.query # Absent
    /\ Answered(j) /\ ~reqs[j].result.ok
    /\ reqs[j].result.err.code # "NoSuchKey" /\ reqs[j].res.status = 500

\* C5: every POST /upload made exactly one putObject call, with the id
\* header as key, the content-type and content-length headers and the
\* request body; it is answered 200 when the call succeeded and 500 when it
\* failed, and a failed call is not repeated.
C5_UploadOneStore ==
  \A i \in DOMAIN reqs :
    LET e == reqs[i] IN
    IsUpload(e.req) =>
      /\ e.calls = <<[op |-> "putObject", Bucket |-> env["BUCKET_NAME"],
                      Key |-> e.req.headers.id,
                      ContentType |-> e.req.headers.contentType,
                      ContentLength |-> e.req.headers.contentLength,
                      Body |-> e.req.body]>>
      /\ Answered(i) => e.res.status = IF e.result.ok THEN 200 ELSE 500

\* One upload was answered 200 and another 500.
C5_Witness ==
  \E i, j \in DOMAIN reqs :
    /\ IsUpload(reqs[i].req) /\ Answered(i) /\ reqs[i].res.status = 200
    /\ IsUpload(reqs[j].req) /\ Answered(j) /\ reqs[j].res.status = 500
    /\ Len(reqs[j].calls) = 1

\* C6: a GET /video?id=k that arrives after an upload of (T, B) to k was
\* answered 200, with no other upload to k pending then or arriving before
\* the download is answered, is never told that the key does not exist and,
\* unless the fetch itself fails, is answered 200 with body B and
\* Content-Type T.
C6_RoundTrip ==
  \A i \in DOMAIN reqs :
    LET e == reqs[i] IN
    (IsDownload(e.req) /\ Answered(i) /\ e.expect # None) =>
      IF e.result.ok
      THEN /\ e.res.status = 200
           /\ e.res.body = [kind |-> "buffer", bytes |-> e.expect.Body]
           /\ e.res.headers.contentType = e.expect.ContentType
      ELSE e.result.err.code # "NoSuchKey"

\* An upload to k1 was answered 200 and the download of k1 that followed
\* returned its bytes.
C6_Witness ==
  \E i, j \in DOMAIN reqs :
    /\ i < j
    /\ IsUpload(reqs[i].req) /\ Answered(i) /\ reqs[i].res.status = 200
    /\ IsDownload(reqs[j].req) /\ reqs[j].req.query = reqs[i].req.headers.id
    /\ Answered(j) /\ reqs[j].expect # None
    /\ reqs[j].res.status = 200
    /\ reqs[j].res.body = [kind |-> "buffer", bytes |-> reqs[i].req.body]

HmacFields == {"REGION", "ACCESS_KEY_ID", "SECRET_ACCESS_KEY"}
IamFields == {"API_KEY", "SERVICE_INSTANCE_ID"}
Unset(fields) == {f \in fields : env[f] = Absent}
MainPassed == startError = None /\ pc \in {"binding", "listening", "bindFailed"}

\* The fields of a mode are all set, or exactly one is unset and startup
\* failed with the missing-configuration error that names it.
ModeResolved(fields) ==
  /\ Unset(fields) = {} => MainPassed
  /\ \A f \in fields :
       Unset(fields) = {f} => pc = "failed" /\ startError = MissingConfiguration(f)

\* C7: with BUCKET_NAME and ENDPOINT set, under hmac main passes when REGION,
\* ACCESS_KEY_ID and SECRET_ACCESS_KEY are set and fails naming the field
\* when exactly one of them is unset; under iam the same for API_KEY and
\* SERVICE_INSTANCE_ID; the fields of the other mode play no part.
C7_ModeFields ==
  (StartupOver /\ env["BUCKET_NAME"] = "videos" /\ env["ENDPOINT"] = "https://cos.example") =>
    /\ env["AUTHENTICATION_TYPE"] = "hmac" => ModeResolved(HmacFields)
    /\ env["AUTHENTICATION_TYPE"] = "iam" => ModeResolved(IamFields)

\* Under hmac with the iam fields set, the unset secret key failed startup.
C7_Witness ==
  /\ pc = "failed"
  /\ env["AUTHENTICATION_TYPE"] = "hmac"
  /\ Unset(HmacFields) = {"SECRET_ACCESS_KEY"}
  /\ Unset(IamFields) = {}
  /\ startError = MissingConfiguration("SECRET_ACCESS_KEY")

UnknownMode ==
  env["AUTHENTICATION_TYPE"] \notin {Absent, "", "hmac", "HMAC", "iam", "IAM"}
NeverServing ==
  pc \notin {"binding", "listening", "bindFailed"} /\ reqs = <<>> /\ ~READINESS_PROBE

\* C8 as stated: an AUTHENTICATION_TYPE that is neither hmac nor iam makes
\* startup fail with the unknown-authentication-type error whatever the
\* other variables are, and the listener is never bound.
C8_AsStated ==
  (StartupOver /\ UnknownMode) =>
    /\ startError = UnknownAuthenticationType(env["AUTHENTICATION_TYPE"])
    /\ NeverServing

\* C8 as amended: a non-empty AUTHENTICATION_TYPE that is neither hmac nor
\* iam makes startup fail and the listener is never bound; the error is the
\* unknown-authentication-type error when BUCKET_NAME and ENDPOINT are set
\* and non-empty.
C8_UnknownMode ==
  (StartupOver /\ UnknownMode) =>
    /\ pc = "failed"
    /\ NeverServing
    /\ (Truthy(env["BUCKET_NAME"]) /\ Truthy(env["ENDPOINT"])) =>
         startError = UnknownAuthenticationType(env["AUTHENTICATION_TYPE"])

C8_Witness ==
  /\ pc = "failed"
  /\ env["AUTHENTICATION_TYPE"] = "basic"
  /\ Unset(HmacFields \cup IamFields) = {}
  /\ startError = UnknownAuthenticationType("basic")

AlwaysRequired == {"BUCKET_NAME", "ENDPOINT", "AUTHENTICATION_TYPE"}

\* C9: when BUCKET_NAME, ENDPOINT or AUTHENTICATION_TYPE is unset or empty,
\* startup fails with a missing-configuration error that names such a
\* field, the listener is never bound, no request is served and
\* READINESS_PROBE stays false.
C9_RequiredMissing ==
  (StartupOver /\ \E f \in AlwaysRequired : ~Truthy(env[f])) =>
    /\ startError.kind = "MissingConfiguration"
    /\ startError.field \in AlwaysRequired
    /\ ~Truthy(env[startError.field])
    /\ NeverServing

Matched(r) == IsProbe(r) \/ IsDownload(r) \/ IsUpload(r)

\* C10: a request that matches none of GET /readiness, GET /video and
\* POST /upload is answered 404 with an HTML body that contains its URL and
\* an error line with that URL is logged; a request that matches one of the
\* three is never answered 404.
C10_NotFound ==
  \A i \in DOMAIN reqs :
    LET e == reqs[i] IN
    IF Matched(e.req)
    THEN Answered(i) => e.res.status # 404
    ELSE /\ Answered(i)
         /\ e.res.status = 404
         /\ e.res.body.kind = "html"
         /\ \E j \in DOMAIN e.res.body.text : e.res.body.text[j] = <<e.req.path, e.req.query>>
         /\ \E j \in DOMAIN e.log :
              /\ e.log[j].level = "error"
              /\ \E n \in DOMAIN e.log[j].message :
                   e.log[j].message[n] = <<e.req.path, e.req.query>>

\* POST /video?id=k1 was answered 404 next to a download that was not.
C10_Witness ==
  \E i, j \in DOMAIN reqs :
    /\ reqs[i].req.method = "POST" /\ reqs[i].req.path = "/video"
    /\ reqs[i].res.status = 404
    /\ IsDownload(reqs[j].req) /\ Answered(j) /\ reqs[j].res.status # 404

\* C11: on every route, every log line written for a request that carries
\* x-correlation-id c has requestId c; a request without the header is
\* handled all the same and its lines have an undefined, empty or
\* placeholder requestId.
C11_CorrelationId ==
  \A i \in DOMAIN reqs :
    LET e == reqs[i]
        cid == e.req.headers.correlationId IN
    /\ cid # Absent => \A j \in DOMAIN e.log : e.log[j].requestId = cid
    /\ cid = Absent =>
         /\ e.state \in {"pending", "done"}
         /\ \A j \in DOMAIN e.log : e.log[j].requestId \in {Absent, "", "-1"}

\* C12: when the connection of an upload or a download is dropped while its
\* call to the object store is in flight, the call is aborted or abandoned:
\* it never runs on to a successful completion after the client is gone.
C12_AbortedOnDrop ==
  \A i \in DOMAIN reqs :
    (reqs[i].dropped /\ Answered(i)) => ~reqs[i].result.ok

\* The response a request must get from nothing but its own inputs and the
\* answer of the object store to its own call.
OwnResponse(e) ==
  IF IsProbe(e.req) THEN SendStatus(200)
  ELSE IF IsDownload(e.req) THEN
    IF e.req.query = Absent
    THEN [status |-> 200,
          headers |-> [contentType |-> "application/json", contentLength |-> Absent],
          body |-> [kind |-> "json", error |-> "An 'id' term must be provided."]]
    ELSE IF e.result.ok
    THEN [status |-> 200,
          headers |-> [contentType |-> e.result.data.ContentType,
                       contentLength |-> DecimalString(e.result.data.ContentLength)],
          body |-> [kind |-> "buffer", bytes |-> e.result.data.Body]]
    ELSE SendStatus(500)
  ELSE IF IsUpload(e.req) THEN SendStatus(IF e.result.ok THEN 200 ELSE 500)
  ELSE [status |-> 404,
        headers |-> [contentType |-> "text/html", contentLength |-> Absent],
        body |-> [kind |-> "html",
                  text |-> <<<<"<h1>Unable to find the requested resource (">>,
                             <<e.req.path, e.req.query>>, <<")!</h1>">>>>]]

\* The answer of the object store that reached the handler of a request is
\* the answer to the call that request made with its own key.
OwnResult(e) ==
  /\ IsDownload(e.req) /\ e.req.query # Absent =>
       /\ e.result.call.op = "getObject"
       /\ e.result.call.Key = e.req.query
  /\ IsUpload(e.req) =>
       /\ e.result.call.op = "putObject"
       /\ e.result.call.Key = e.req.headers.id
       /\ e.result.call.Body = e.req.body

\* While the service listens and more traffic is to come, a request of every
\* route can be taken, whatever is pending; and every pending request can be
\* answered, whatever else is pending.
NothingBlocks ==
  /\ (Bound /\ Len(reqs) < MaxRequests) =>
       /\ ENABLED Readiness
       /\ ENABLED VideoRequest
       /\ ENABLED UploadRequest
       /\ ENABLED Fallback
  /\ \A i \in DOMAIN reqs :
       reqs[i].state = "pending" =>
         ENABLED (GetObjectRejected(i) \/ PutObjectRejected(i))

\* C13: requests are handled concurrently and share no request state: a
\* pending storage call blocks no other request; a request has no response
\* while it is pending and one response once its handler is done, which is
\* never replaced; and that response is determined by the request's own
\* inputs and the answer to its own storage call, under every interleaving
\* of arrivals, answers of the object store and dropped connections.
C13_Isolation ==
  /\ [](NothingBlocks)
  /\ [](\A i \in DOMAIN reqs :
          LET e == reqs[i] IN
          IF Answered(i)
          THEN OwnResult(e) /\ e.res = OwnResponse(e)
          ELSE e.res = None)
  /\ [][\A i \in DOMAIN reqs : Answered(i) => reqs'[i] = reqs[i]]_vars

\* A download that arrived second was answered for its own key while the
\* storage call of the first request, for another key, is still pending.
C13_Witness ==
  \E i, j \in DOMAIN reqs :
    /\ i < j
    /\ reqs[i].state = "pending" /\ reqs[i].calls # <<>>
    /\ IsDownload(reqs[j].req) /\ reqs[j].req.query # Absent /\ Answered(j)
    /\ reqs[j].result.call.Key # reqs[i].calls[1].Key
    /\ reqs[j].res.status = 500
====
